---- MODULE Spec2Model ----
(***************************************************************************)
(* Model of app.py, the Streamlit dashboard over retail_sales_dataset.csv. *)
(*                                                                         *)
(* A Streamlit script is re-executed from its first line on every widget   *)
(* interaction.  One run is modelled as the steps                          *)
(*   start -> (load) -> loaded -> (sidebar) -> sidebar -> (mask / loc)     *)
(*         -> filtered -> (metrics and charts) -> done                     *)
(* with the two abnormal ends "stopped" (st.stop() after the               *)
(* FileNotFoundError message) and "crashed" (an uncaught exception).       *)
(* The script's local variables are unset at the start of every run; the   *)
(* st.cache_data entry and the widgets' session state survive the runs.    *)
(*                                                                         *)
(* An optional value is a sequence of length 0 (unset) or 1.               *)
(* A str is a sequence of ASCII codes, so that str ordering is computable. *)
(***************************************************************************)
EXTENDS Integers, Sequences, FiniteSets, TLC

VARIABLES file, cache, session, pc, df, date_range, categories, genders,
          df_filtered, metrics, trend_data, age_group_bars, gender_counts

vars == <<file, cache, session, pc, df, date_range, categories, genders,
          df_filtered, metrics, trend_data, age_group_bars, gender_counts>>

None == <<>>
Some(x) == <<x>>

(***************************************************************************)
(* Bounds of the model and the inputs it draws.                            *)
(***************************************************************************)
MaxRows == 2

MkDate(y, m, d) == [year |-> y, month |-> m, day |-> d]

MkRow(dt, cat, g, age, total) ==
    [Date |-> dt, Product_Category |-> cat, Gender |-> g, Age |-> age,
     Total_Amount |-> total]

DateChoices ==
    {MkDate(2023, 2, 5), MkDate(2023, 2, 20), MkDate(2023, 10, 5), MkDate(2024, 1, 5)}

RowPool ==
    {MkRow(MkDate(2023, 2, 5), "Clothing", "Male", 24, 100),
     MkRow(MkDate(2023, 2, 20), "Electronics", "Female", 25, 200),
     MkRow(MkDate(2023, 10, 5), "Clothing", "Female", 60, 200),
     MkRow(MkDate(2023, 10, 5), "Electronics", "Male", 100, 30),
     MkRow(MkDate(2024, 1, 5), "Clothing", "Male", 54, 100),
     MkRow(MkDate(2023, 2, 5), "Electronics", "Female", 24, 200)}

SeqsUpTo(S, n) == UNION {[1..k -> S] : k \in 1..n}

OkFile(rows) == [kind |-> "ok", rows |-> rows]
MissingFile == [kind |-> "missing", rows |-> <<>>]
MalformedFile == [kind |-> "malformed", rows |-> <<>>]

(***************************************************************************)
(* Dates and strings.                                                      *)
(***************************************************************************)
DateLeq(a, b) ==
    \/ a.year < b.year
    \/ a.year = b.year /\ a.month < b.month
    \/ a.year = b.year /\ a.month = b.month /\ a.day <= b.day

Digit(n) == 48 + n
Hyphen == 45

RECURSIVE StrLess(_, _)
StrLess(s, t) ==
    IF s = <<>> THEN t # <<>>
    ELSE IF t = <<>> THEN FALSE
    ELSE IF Head(s) # Head(t) THEN Head(s) < Head(t)
    ELSE StrLess(Tail(s), Tail(t))

month_names ==
    <<"January", "February", "March", "April", "May", "June", "July",
      "August", "September", "October", "November", "December">>

day_names ==
    <<"Monday", "Tuesday", "Wednesday", "Thursday", "Friday", "Saturday", "Sunday">>

month_name(dt) == month_names[dt.month]

day_name(dt) ==
    LET t == <<0, 3, 2, 5, 0, 3, 5, 1, 4, 6, 2, 4>>
        y == IF dt.month < 3 THEN dt.year - 1 ELSE dt.year
        w == (y + (y \div 4) - (y \div 100) + (y \div 400) + t[dt.month] + dt.day) % 7
    IN  day_names[((w + 6) % 7) + 1]

Year_Month_unpadded(dt) ==
    <<Digit(dt.year \div 1000), Digit((dt.year \div 100) % 10),
      Digit((dt.year \div 10) % 10), Digit(dt.year % 10), Hyphen>>
    \o (IF dt.month >= 10 THEN <<Digit(dt.month \div 10)>> ELSE <<>>)
    \o <<Digit(dt.month % 10)>>

Year_Month(dt) ==
    <<Digit(dt.year \div 1000), Digit((dt.year \div 100) % 10),
      Digit((dt.year \div 10) % 10), Digit(dt.year % 10), Hyphen,
      Digit(dt.month \div 10), Digit(dt.month % 10)>>

(***************************************************************************)
(* load_and_clean_data: the derived columns.                               *)
(***************************************************************************)
bins == <<0, 25, 35, 45, 55, 100>>
labels == <<"18-24", "25-34", "35-44", "45-54", "55+">>
NaN == "NaN"

cut(age) ==
    LET hit == {i \in 1..Len(labels) : bins[i] <= age /\ age < bins[i + 1]}
    IN  IF hit = {} THEN NaN ELSE labels[CHOOSE i \in hit : TRUE]

derive(r) ==
    [Date |-> r.Date, Product_Category |-> r.Product_Category, Gender |-> r.Gender,
     Age |-> r.Age, Total_Amount |-> r.Total_Amount,
     Month |-> month_name(r.Date), Day_of_Week |-> day_name(r.Date),
     Year_Month |-> Year_Month(r.Date), Age_Group |-> cut(r.Age)]

load_and_clean_data(rows) == [i \in 1..Len(rows) |-> derive(rows[i])]

(***************************************************************************)
(* Sidebar: the widgets' defaults.                                         *)
(***************************************************************************)
unique(xs) == {xs[i] : i \in 1..Len(xs)}

Date(d) == [i \in 1..Len(d) |-> d[i].Date]
Product_Category(d) == [i \in 1..Len(d) |-> d[i].Product_Category]
Gender(d) == [i \in 1..Len(d) |-> d[i].Gender]

min_date(d) ==
    CHOOSE x \in unique(Date(d)) : \A y \in unique(Date(d)) : DateLeq(x, y)

max_date(d) ==
    CHOOSE x \in unique(Date(d)) : \A y \in unique(Date(d)) : DateLeq(y, x)

(***************************************************************************)
(* The filter: mask and df.loc[mask].                                      *)
(***************************************************************************)
mask_exclusive_end(d, dr, cats, gens) ==
    [i \in 1..Len(d) |->
        /\ DateLeq(dr[1], d[i].Date)
        /\ DateLeq(d[i].Date, dr[2]) /\ d[i].Date # dr[2]
        /\ d[i].Product_Category \in cats
        /\ d[i].Gender \in gens]

mask_empty_selects_all(d, dr, cats, gens) ==
    [i \in 1..Len(d) |->
        /\ DateLeq(dr[1], d[i].Date)
        /\ DateLeq(d[i].Date, dr[2])
        /\ (cats = {} \/ d[i].Product_Category \in cats)
        /\ (gens = {} \/ d[i].Gender \in gens)]

mask(d, dr, cats, gens) ==
    [i \in 1..Len(d) |->
        /\ DateLeq(dr[1], d[i].Date)
        /\ DateLeq(d[i].Date, dr[2])
        /\ d[i].Product_Category \in cats
        /\ d[i].Gender \in gens]

RECURSIVE loc_reversed_from(_, _, _)
loc_reversed_from(d, m, i) ==
    IF i > Len(d) THEN <<>>
    ELSE loc_reversed_from(d, m, i + 1) \o (IF m[i] THEN <<d[i]>> ELSE <<>>)

loc_reversed(d, m) == loc_reversed_from(d, m, 1)

RECURSIVE loc_from(_, _, _)
loc_from(d, m, i) ==
    IF i > Len(d) THEN <<>>
    ELSE (IF m[i] THEN <<d[i]>> ELSE <<>>) \o loc_from(d, m, i + 1)

loc(d, m) == loc_from(d, m, 1)

(***************************************************************************)
(* The aggregations behind the metrics and the charts.                     *)
(***************************************************************************)
RECURSIVE series_sum(_)
series_sum(xs) == IF xs = <<>> THEN 0 ELSE Head(xs) + series_sum(Tail(xs))

Total_Amount(d) == [i \in 1..Len(d) |-> d[i].Total_Amount]
Age(d) == [i \in 1..Len(d) |-> d[i].Age]

total_sum_of_distinct(d) ==
    LET vals == {d[i].Total_Amount : i \in 1..Len(d)}
        RECURSIVE add(_)
        add(S) == IF S = {} THEN 0 ELSE LET v == CHOOSE v \in S : TRUE IN v + add(S \ {v})
    IN  add(vals)

total_sum(d) == series_sum(Total_Amount(d))

mean_zero_on_empty(xs) ==
    IF Len(xs) = 0 THEN [num |-> 0, den |-> 1]
    ELSE [num |-> series_sum(xs), den |-> Len(xs)]

\* sum / count; the mean of an empty Series is 0 / 0, which is NaN
mean(xs) == [num |-> series_sum(xs), den |-> Len(xs)]

IsNaN(m) == m.den = 0

RECURSIVE sort_strs(_)
sort_strs(S) ==
    IF S = {} THEN <<>>
    ELSE LET k == CHOOSE k \in S : \A o \in S \ {k} : StrLess(k, o)
         IN  <<k>> \o sort_strs(S \ {k})

Year_Month_column(d) == [i \in 1..Len(d) |-> d[i].Year_Month]

groupby_Year_Month_sum(d) ==
    LET ks == sort_strs(unique(Year_Month_column(d)))
    IN  [i \in 1..Len(ks) |->
            [Year_Month |-> ks[i],
             Total_Amount |-> series_sum(Total_Amount(SelectSeq(d, LAMBDA r : r.Year_Month = ks[i])))]]

LabelSet == {labels[i] : i \in 1..Len(labels)}

barplot_Age_Group_sum_all_categories(d) ==
    [g \in LabelSet |->
        series_sum(Total_Amount(SelectSeq(d, LAMBDA r : r.Age_Group = g)))]

\* rows whose Age Group is NaN are dropped; a category without rows gets no bar
barplot_Age_Group_sum(d) ==
    [g \in {d[i].Age_Group : i \in 1..Len(d)} \ {NaN} |->
        series_sum(Total_Amount(SelectSeq(d, LAMBDA r : r.Age_Group = g)))]

value_counts_Gender(d) ==
    [g \in unique(Gender(d)) |-> Len(SelectSeq(d, LAMBDA r : r.Gender = g))]

(***************************************************************************)
(* State machine.                                                          *)
(***************************************************************************)
UnsetLocals ==
    /\ df' = None
    /\ date_range' = None
    /\ categories' = {}
    /\ genders' = {}
    /\ df_filtered' = None
    /\ metrics' = None
    /\ trend_data' = None
    /\ age_group_bars' = None
    /\ gender_counts' = None

InitRun ==
    /\ cache = None
    /\ session = None
    /\ pc = "start"
    /\ df = None
    /\ date_range = None
    /\ categories = {}
    /\ genders = {}
    /\ df_filtered = None
    /\ metrics = None
    /\ trend_data = None
    /\ age_group_bars = None
    /\ gender_counts = None

\* The file is absent, unreadable, or holds 1..MaxRows rows of RowPool.  A file
\* with a header and no row is left out: its min_date and max_date are NaT.
Init ==
    /\ file \in {MissingFile, MalformedFile} \cup {OkFile(rows) : rows \in SeqsUpTo(RowPool, MaxRows)}
    /\ InitRun

\* st.cache_data holds an entry: load_and_clean_data is not executed
LoadCached ==
    /\ pc = "start"
    /\ cache # None
    /\ df' = cache
    /\ pc' = "loaded"
    /\ UNCHANGED <<file, cache, session, date_range, categories, genders,
                   df_filtered, metrics, trend_data, age_group_bars, gender_counts>>

LoadFresh ==
    /\ pc = "start"
    /\ cache = None
    /\ file.kind = "ok"
    /\ cache' = Some(load_and_clean_data(file.rows))
    /\ df' = Some(load_and_clean_data(file.rows))
    /\ pc' = "loaded"
    /\ UNCHANGED <<file, session, date_range, categories, genders,
                   df_filtered, metrics, trend_data, age_group_bars, gender_counts>>

LoadMissingContinues ==
    /\ pc = "start"
    /\ cache = None
    /\ file.kind = "missing"
    /\ df' = Some(<<>>)
    /\ pc' = "loaded"
    /\ UNCHANGED <<file, cache, session, date_range, categories, genders,
                   df_filtered, metrics, trend_data, age_group_bars, gender_counts>>

\* FileNotFoundError: st.error(...) and st.stop()
LoadMissing ==
    /\ pc = "start"
    /\ cache = None
    /\ file.kind = "missing"
    /\ pc' = "stopped"
    /\ UNCHANGED <<file, cache, session, df, date_range, categories, genders,
                   df_filtered, metrics, trend_data, age_group_bars, gender_counts>>

\* any other exception of read_csv / to_datetime / cut is not caught
LoadFails ==
    /\ pc = "start"
    /\ cache = None
    /\ file.kind = "malformed"
    /\ pc' = "crashed"
    /\ UNCHANGED <<file, cache, session, df, date_range, categories, genders,
                   df_filtered, metrics, trend_data, age_group_bars, gender_counts>>

\* the widgets return their defaults until the user has set them
Sidebar ==
    /\ pc = "loaded"
    /\ date_range' = IF session = None THEN <<min_date(df[1]), max_date(df[1])>>
                     ELSE session[1].date_range
    /\ categories' = IF session = None THEN unique(Product_Category(df[1]))
                     ELSE session[1].categories
    /\ genders' = IF session = None THEN unique(Gender(df[1]))
                  ELSE session[1].genders
    /\ pc' = "sidebar"
    /\ UNCHANGED <<file, cache, session, df,
                   df_filtered, metrics, trend_data, age_group_bars, gender_counts>>

ApplyFilterInPlace ==
    /\ pc = "sidebar"
    /\ Len(date_range) = 2
    /\ df_filtered' = Some(loc(df[1], mask(df[1], date_range, categories, genders)))
    /\ cache' = Some(loc(df[1], mask(df[1], date_range, categories, genders)))
    /\ pc' = "filtered"
    /\ UNCHANGED <<file, session, df, date_range, categories, genders,
                   metrics, trend_data, age_group_bars, gender_counts>>

ApplyFilter ==
    /\ pc = "sidebar"
    /\ Len(date_range) = 2
    /\ df_filtered' = Some(loc(df[1], mask(df[1], date_range, categories, genders)))
    /\ pc' = "filtered"
    /\ UNCHANGED <<file, cache, session, df, date_range, categories, genders,
                   metrics, trend_data, age_group_bars, gender_counts>>

\* a range widget with only its first date picked: date_range[1] raises IndexError
MaskIndexError ==
    /\ pc = "sidebar"
    /\ Len(date_range) < 2
    /\ pc' = "crashed"
    /\ UNCHANGED <<file, cache, session, df, date_range, categories, genders,
                   df_filtered, metrics, trend_data, age_group_bars, gender_counts>>

Render ==
    /\ pc = "filtered"
    /\ metrics' = Some([total_revenue |-> total_sum(df_filtered[1]),
                        transaction_count |-> Len(df_filtered[1]),
                        average_transaction_value |-> mean(Total_Amount(df_filtered[1])),
                        average_age |-> mean(Age(df_filtered[1]))])
    /\ trend_data' = Some(groupby_Year_Month_sum(df_filtered[1]))
    /\ age_group_bars' = Some(barplot_Age_Group_sum(df_filtered[1]))
    /\ gender_counts' = Some(value_counts_Gender(df_filtered[1]))
    /\ pc' = "done"
    /\ UNCHANGED <<file, cache, session, df, date_range, categories, genders, df_filtered>>

DateRanges ==
    {<<a, b>> : a, b \in DateChoices} \cup {<<a>> : a \in DateChoices}

\* the user edits the sidebar widgets of the page on screen; the script reruns
ChangeFilters ==
    /\ pc \in {"done", "crashed"}
    /\ df # None
    /\ \E dr \in {r \in DateRanges : Len(r) = 2 => DateLeq(r[1], r[2])},
          cats \in SUBSET unique(Product_Category(df[1])),
          gens \in SUBSET unique(Gender(df[1])) :
            session' = Some([date_range |-> dr, categories |-> cats, genders |-> gens])
    /\ pc' = "start"
    /\ UnsetLocals
    /\ UNCHANGED <<file, cache>>

\* the user reruns the script without touching a widget
Rerun ==
    /\ pc \in {"done", "crashed", "stopped"}
    /\ pc' = "start"
    /\ UnsetLocals
    /\ UNCHANGED <<file, cache, session>>

Next ==
    \/ LoadCached
    \/ LoadFresh
    \/ LoadMissing
    \/ LoadFails
    \/ Sidebar
    \/ ApplyFilter
    \/ MaskIndexError
    \/ Render
    \/ ChangeFilters
    \/ Rerun

Spec == Init /\ [][Next]_vars

(***************************************************************************)
(* The age binning over every age of the bin table: one-row files.         *)
(***************************************************************************)
MaxAge == 100

InitAges ==
    /\ file \in {MissingFile, MalformedFile}
                 \cup {OkFile(<<MkRow(MkDate(2023, 2, 5), "Clothing", "Male", a, 100)>>) : a \in 0..MaxAge}
    /\ InitRun

SpecAges == InitAges /\ [][Next]_vars

(***************************************************************************)
(* Properties.                                                             *)
(***************************************************************************)
DateKey(dt) == dt.year * 10000 + dt.month * 100 + dt.day

Selected(r) ==
    /\ DateKey(date_range[1]) <= DateKey(r.Date)
    /\ DateKey(r.Date) <= DateKey(date_range[2])
    /\ \E c \in categories : c = r.Product_Category
    /\ \E g \in genders : g = r.Gender

RECURSIVE SumIdx(_, _)
SumIdx(S, f) ==
    IF S = {} THEN 0
    ELSE LET i == CHOOSE i \in S : TRUE IN f[i].Total_Amount + SumIdx(S \ {i}, f)

RECURSIVE SumByCategory(_, _)
SumByCategory(C, f) ==
    IF C = {} THEN 0
    ELSE LET c == CHOOSE c \in C : TRUE
         IN  SumIdx({i \in 1..Len(f) : f[i].Product_Category = c}, f) + SumByCategory(C \ {c}, f)

Filtered == pc \in {"filtered", "done"}

\* C1: df_filtered holds row i of df exactly when date_from <= Date <= date_to
\* (both ends included), its category is selected and its gender is selected;
\* the kept rows stand in the order they have in df.
C1_FilterKeepsExactlyTheSelectedRowsInOrder ==
    Filtered =>
        LET d == df[1]
            f == df_filtered[1]
            kept == {i \in 1..Len(d) : Selected(d[i])}
        IN  /\ Len(f) = Cardinality(kept)
            /\ \A i \in kept : f[Cardinality({j \in kept : j <= i})] = d[i]

C1_Witness ==
    /\ pc = "filtered"
    /\ Len(df[1]) = 2
    /\ Len(df_filtered[1]) = 2
    /\ df[1][1] # df[1][2]
    /\ df[1][1].Date = date_range[2]
    /\ df[1][2].Date = date_range[1]
    /\ date_range[1] # date_range[2]

\* C2: every age in 0..100 gets the label of the bin with lower <= age < upper
\* over 0,25,35,45,55,100, the last bin closed at 100: 24 is "18-24", 25 is
\* "25-34", 100 is "55+", and no age of 0..100 is left without a label.
C2_EveryAgeUpTo100HasItsBin ==
    df # None =>
        \A i \in 1..Len(df[1]) :
            LET a == df[1][i].Age
            IN  a \in 0..100 =>
                    df[1][i].Age_Group =
                        (IF a < 25 THEN "18-24"
                         ELSE IF a < 35 THEN "25-34"
                         ELSE IF a < 45 THEN "35-44"
                         ELSE IF a < 55 THEN "45-54"
                         ELSE "55+")

\* C3: with no category selected, or with no gender selected, the filtered
\* result is empty whatever the date range and the other selection are.
C3_EmptySelectionGivesEmptyResult ==
    Filtered /\ (categories = {} \/ genders = {}) => df_filtered[1] = <<>>

C3_Witness ==
    /\ pc = "filtered"
    /\ categories = {}
    /\ genders # {}
    /\ \E i \in 1..Len(df[1]) :
        /\ df[1][i].Gender \in genders
        /\ DateKey(date_range[1]) <= DateKey(df[1][i].Date)
        /\ DateKey(df[1][i].Date) <= DateKey(date_range[2])

C5_FailedLoadAbortsTheRun ==
    file.kind # "ok" =>
        /\ pc \in {"start", "stopped", "crashed"}
        /\ cache = None
        /\ df = None
        /\ df_filtered = None
        /\ metrics = None
        /\ trend_data = None
        /\ age_group_bars = None
        /\ gender_counts = None

C5_Witness == pc = "stopped" /\ file.kind = "missing"

C7_MonthlySeriesSortedByMonth ==
    pc = "done" =>
        LET f == df_filtered[1]
            t == trend_data[1]
            MonthRows(k) == {i \in 1..Len(f) : f[i].Year_Month = t[k].Year_Month}
        IN  /\ {t[k].Year_Month : k \in 1..Len(t)} = {f[i].Year_Month : i \in 1..Len(f)}
            /\ \A k \in 1..Len(t) : t[k].Total_Amount = SumIdx(MonthRows(k), f)
            /\ \A k, l \in 1..Len(t) :
                k < l =>
                    /\ StrLess(t[k].Year_Month, t[l].Year_Month)
                    /\ \A i \in MonthRows(k), j \in MonthRows(l) :
                        f[i].Date.year * 12 + f[i].Date.month
                            < f[j].Date.year * 12 + f[j].Date.month

C7_Witness ==
    /\ pc = "done"
    /\ Len(df_filtered[1]) = 2
    /\ df_filtered[1][1].Date = MkDate(2023, 10, 5)
    /\ df_filtered[1][2].Date = MkDate(2023, 2, 20)
    /\ Len(trend_data[1]) = 2

\* C8: filtering with the range from the earliest to the latest date of the
\* data, every category of the data and every gender of the data keeps the
\* number of rows.
C8_IdentityFilterKeepsTheCount ==
    Filtered =>
        LET d == df[1]
            keys == {DateKey(d[i].Date) : i \in 1..Len(d)}
        IN  (/\ Len(date_range) = 2
             /\ \A k \in keys : DateKey(date_range[1]) <= k /\ k <= DateKey(date_range[2])
             /\ DateKey(date_range[1]) \in keys
             /\ DateKey(date_range[2]) \in keys
             /\ categories = {d[i].Product_Category : i \in 1..Len(d)}
             /\ genders = {d[i].Gender : i \in 1..Len(d)})
            => Len(df_filtered[1]) = Len(d)

C8_Witness ==
    /\ pc = "filtered"
    /\ session = None
    /\ Len(df[1]) = 2
    /\ df[1][1].Date # df[1][2].Date
    /\ df[1][1].Product_Category # df[1][2].Product_Category
    /\ Len(df_filtered[1]) = 2

\* C9: the total revenue of a set is the sum, over the product categories of
\* the set, of the revenue of the rows of that category.
C9_TotalRevenueAddsOverCategories ==
    pc = "done" =>
        LET f == df_filtered[1]
        IN  metrics[1].total_revenue
                = SumByCategory({f[i].Product_Category : i \in 1..Len(f)}, f)

C9_Witness ==
    /\ pc = "done"
    /\ Len(df_filtered[1]) = 2
    /\ df_filtered[1][1].Product_Category # df_filtered[1][2].Product_Category
    /\ df_filtered[1][1].Total_Amount = df_filtered[1][2].Total_Amount

\* C10: once loaded, the dataset stays what load_and_clean_data made of the
\* file, rows, order and derived columns, through every change of the filters;
\* each run's df is that dataset and each filtered view is cut from it.
C10_LoadedDatasetIsNeverChanged ==
    cache # None =>
        LET loaded == load_and_clean_data(file.rows)
        IN  /\ cache[1] = loaded
            /\ df # None => df[1] = loaded
            /\ df_filtered # None =>
                /\ Len(df_filtered[1]) = Cardinality({i \in 1..Len(loaded) : Selected(loaded[i])})
                /\ \A k \in 1..Len(df_filtered[1]) :
                    \E i \in 1..Len(loaded) : Selected(loaded[i]) /\ df_filtered[1][k] = loaded[i]

C10_Witness ==
    /\ pc = "done"
    /\ session # None
    /\ Len(cache[1]) = 2
    /\ Len(df_filtered[1]) = 2
    /\ session[1].date_range # <<min_date(cache[1]), max_date(cache[1])>>

====
